---- MODULE Spec2Model ----
(***************************************************************************)
(* Model of the file-upload backend (services/blobService.ts and the       *)
(* Express handlers of index.ts) over an abstract Blob Store, and of the   *)
(* FileList component that renders the listing.                            *)
(*                                                                         *)
(* A JavaScript string is a sequence of UTF-16 code units (naturals        *)
(* below 65536); a Buffer is a sequence of bytes (0..255).  The JavaScript *)
(* value null is the one-element sequence Null, which is no string because *)
(* -1 is no code unit.                                                     *)
(***************************************************************************)
EXTENDS Integers, Sequences, FiniteSets, TLC

VARIABLES
    cFilePath,   \* codec harness: the declared filename under test
    cToken,      \* codec harness: metadata token written for cFilePath
    cDecoded,    \* codec harness: string recovered from cToken
    cPhase,      \* codec harness: "input" | "encoded" | "decoded" | "off"
    cBlobName    \* codec harness: blob name derived for cFilePath

codecVars == <<cFilePath, cToken, cDecoded, cPhase, cBlobName>>

VARIABLES
    lowerCases,  \* Blob Store: TRUE iff metadata names read back lower-cased
    containers,  \* Blob Store: number of containers named containerName
    blobs,       \* Blob Store: the container's objects, in enumeration order
    clock,       \* the milliseconds new Date() returned when last read
    startup,     \* "loading" while blobService.ts is being loaded ("crashed" if
                 \* that threw), then "pending" until the
                 \* ensureContainerExists() of server start ends, then "done"
    req,         \* the upload requests: position, file, locals, calls made
    sent,        \* the upload response the last step sent, if it sent one
    listing,     \* the GET /api/files response the last step sent, if any
    displayed    \* FileList: the names the last step rendered, one per file

sysVars == <<lowerCases, containers, blobs, clock, startup, req, sent, listing,
             displayed>>

VARIABLES
    fileSelected,    \* UploadFile: TRUE iff the state `file` is not null
    uploadError,     \* UploadFile: the state `error`; "" for null
    uploading,       \* UploadFile: the state `uploading`
    uploadProgress,  \* UploadFile: the state `uploadProgress`
    attempts,        \* UploadFile: number of uploads started; the attempt's id
    attempt,         \* UploadFile: "none" | "fetching" | "failed" | "succeeded"
    intervals,       \* UploadFile: attempts whose setInterval timer is active
    resetTimeouts    \* UploadFile: pending setTimeout callbacks of successes

uiVars == <<fileSelected, uploadError, uploading, uploadProgress, attempts,
            attempt, intervals, resetTimeouts>>

vars == <<cFilePath, cToken, cDecoded, cPhase, cBlobName,
          lowerCases, containers, blobs, clock, startup, req, sent, listing,
          displayed,
          fileSelected, uploadError, uploading, uploadProgress, attempts,
          attempt, intervals, resetTimeouts>>

Null == <<-1>>

(***************************************************************************)
(* Bounds                                                                  *)
(***************************************************************************)
MaxLen == 3          \* longest declared filename (code units) of the codec harness
MaxTime == 1         \* new Date() returns 0..MaxTime
MaxForeign == 1      \* objects whose metadata another client has replaced
MaxAttempts == 2     \* uploads the user starts in UploadFile

(***************************************************************************)
(* Strings                                                                 *)
(***************************************************************************)
\* Code units the declared filenames are built from: '.', 'a', U+00E9 (two
\* UTF-8 bytes), U+0E17 THAI THO THAHAN (three bytes) and the surrogate pair
\* D83D DE00 of U+1F600 (four bytes).
Dot == 46
Alphabet == {46, 97, 233, 3607, 55357, 56832}

IsHighSurrogate(c) == c >= 55296 /\ c <= 56319
IsLowSurrogate(c) == c >= 56320 /\ c <= 57343
IsSurrogate(c) == c >= 55296 /\ c <= 57343

RECURSIVE SeqsOfLen(_, _)
SeqsOfLen(S, n) ==
    IF n = 0 THEN {<<>>}
    ELSE {<<c>> \o s : c \in S, s \in SeqsOfLen(S, n - 1)}

SeqsUpTo(S, n) == UNION {SeqsOfLen(S, k) : k \in 0..n}

\* A Unicode string: every surrogate code unit is half of a pair.
WellFormed(s) ==
    \A i \in 1..Len(s) :
        /\ IsHighSurrogate(s[i]) => (i < Len(s) /\ IsLowSurrogate(s[i + 1]))
        /\ IsLowSurrogate(s[i]) => (i > 1 /\ IsHighSurrogate(s[i - 1]))

UnicodeStrings(n) == {s \in SeqsUpTo(Alphabet, n) : WellFormed(s)}

(***************************************************************************)
(* Buffer.from(string): UTF-8 encoding of a JavaScript string              *)
(***************************************************************************)
Utf8Bytes(cp) ==
    IF cp < 128 THEN <<cp>>
    ELSE IF cp < 2048 THEN <<192 + (cp \div 64), 128 + (cp % 64)>>
    ELSE IF cp < 65536 THEN
        <<224 + (cp \div 4096), 128 + ((cp \div 64) % 64), 128 + (cp % 64)>>
    ELSE <<240 + (cp \div 262144), 128 + ((cp \div 4096) % 64),
           128 + ((cp \div 64) % 64), 128 + (cp % 64)>>

RECURSIVE BufferFromString(_)
BufferFromString(s) ==
    IF s = <<>> THEN <<>>
    ELSE LET c == Head(s) IN
         IF IsHighSurrogate(c) /\ Len(s) >= 2 /\ IsLowSurrogate(s[2])
         THEN Utf8Bytes(65536 + (c - 55296) * 1024 + (s[2] - 56320))
                  \o BufferFromString(SubSeq(s, 3, Len(s)))
         ELSE IF IsSurrogate(c)
         THEN Utf8Bytes(65533) \o BufferFromString(Tail(s))
         ELSE Utf8Bytes(c) \o BufferFromString(Tail(s))

(***************************************************************************)
(* buffer.toString('base64')                                               *)
(***************************************************************************)
Pad == 61   \* '='

B64Char(i) ==
    IF i < 26 THEN 65 + i
    ELSE IF i < 52 THEN 97 + (i - 26)
    ELSE IF i < 62 THEN 48 + (i - 52)
    ELSE IF i = 62 THEN 43
    ELSE 47

RECURSIVE ToBase64(_)
ToBase64(b) ==
    IF Len(b) = 0 THEN <<>>
    ELSE IF Len(b) = 1 THEN
        <<B64Char(b[1] \div 4), B64Char((b[1] % 4) * 16), Pad, Pad>>
    ELSE IF Len(b) = 2 THEN
        <<B64Char(b[1] \div 4), B64Char((b[1] % 4) * 16 + (b[2] \div 16)),
          B64Char((b[2] % 16) * 4), Pad>>
    ELSE
        <<B64Char(b[1] \div 4), B64Char((b[1] % 4) * 16 + (b[2] \div 16)),
          B64Char((b[2] % 16) * 4 + (b[3] \div 64)), B64Char(b[3] % 64)>>
            \o ToBase64(SubSeq(b, 4, Len(b)))

(***************************************************************************)
(* Buffer.from(token, 'base64'): the decoder skips every character that is *)
(* not in the alphabet, stops at the first '=' and never throws.           *)
(***************************************************************************)
Unbase64(c) ==
    IF c >= 65 /\ c <= 90 THEN c - 65
    ELSE IF c >= 97 /\ c <= 122 THEN c - 97 + 26
    ELSE IF c >= 48 /\ c <= 57 THEN c - 48 + 52
    ELSE IF c = 43 \/ c = 45 THEN 62
    ELSE IF c = 47 \/ c = 95 THEN 63
    ELSE 64

RECURSIVE Sextets(_)
Sextets(t) ==
    IF t = <<>> THEN <<>>
    ELSE IF Head(t) = Pad THEN <<>>
    ELSE IF Unbase64(Head(t)) < 64 THEN <<Unbase64(Head(t))>> \o Sextets(Tail(t))
    ELSE Sextets(Tail(t))

RECURSIVE SextetsToBytes(_)
SextetsToBytes(x) ==
    IF Len(x) < 2 THEN <<>>
    ELSE IF Len(x) = 2 THEN <<x[1] * 4 + (x[2] \div 16)>>
    ELSE IF Len(x) = 3 THEN
        <<x[1] * 4 + (x[2] \div 16), (x[2] % 16) * 16 + (x[3] \div 4)>>
    ELSE <<x[1] * 4 + (x[2] \div 16), (x[2] % 16) * 16 + (x[3] \div 4),
           (x[3] % 4) * 64 + x[4]>> \o SextetsToBytes(SubSeq(x, 5, Len(x)))

BufferFromBase64(t) == SextetsToBytes(Sextets(t))

(***************************************************************************)
(* buffer.toString(): UTF-8 decoding; every ill-formed subsequence becomes *)
(* U+FFFD, and the call never throws.                                      *)
(***************************************************************************)
IsCont(b) == b >= 128 /\ b <= 191

\* number of bytes of the sequence that the lead byte b announces, 0 if b
\* is no lead byte
SeqLen(b) ==
    IF b < 128 THEN 1
    ELSE IF b >= 194 /\ b <= 223 THEN 2
    ELSE IF b >= 224 /\ b <= 239 THEN 3
    ELSE IF b >= 240 /\ b <= 244 THEN 4
    ELSE 0

\* the range the second byte of a sequence must lie in
SecondOk(b0, b1) ==
    IF b0 = 224 THEN b1 >= 160 /\ b1 <= 191
    ELSE IF b0 = 237 THEN b1 >= 128 /\ b1 <= 159
    ELSE IF b0 = 240 THEN b1 >= 144 /\ b1 <= 191
    ELSE IF b0 = 244 THEN b1 >= 128 /\ b1 <= 143
    ELSE IsCont(b1)

\* how many bytes from the head of b form a well-formed prefix of a sequence
GoodPrefix(b) ==
    LET n == SeqLen(b[1]) IN
    IF n <= 1 THEN 1
    ELSE IF Len(b) < 2 \/ ~SecondOk(b[1], b[2]) THEN 1
    ELSE IF n = 2 THEN 2
    ELSE IF Len(b) < 3 \/ ~IsCont(b[3]) THEN 2
    ELSE IF n = 3 THEN 3
    ELSE IF Len(b) < 4 \/ ~IsCont(b[4]) THEN 3
    ELSE 4

CodeUnits(cp) ==
    IF cp < 65536 THEN <<cp>>
    ELSE <<55296 + ((cp - 65536) \div 1024), 56320 + ((cp - 65536) % 1024)>>

DecodeOne(b, n) ==
    IF n = 1 THEN b[1]
    ELSE IF n = 2 THEN (b[1] - 192) * 64 + (b[2] - 128)
    ELSE IF n = 3 THEN (b[1] - 224) * 4096 + (b[2] - 128) * 64 + (b[3] - 128)
    ELSE (b[1] - 240) * 262144 + (b[2] - 128) * 4096 + (b[3] - 128) * 64
             + (b[4] - 128)

RECURSIVE BufferToString(_)
BufferToString(b) ==
    IF b = <<>> THEN <<>>
    ELSE LET n == SeqLen(b[1])
             g == GoodPrefix(b)
         IN IF n > 0 /\ g = n
            THEN CodeUnits(DecodeOne(b, n)) \o BufferToString(SubSeq(b, n + 1, Len(b)))
            ELSE <<65533>> \o BufferToString(SubSeq(b, g + 1, Len(b)))

\* Buffer.from(filePath).toString('base64')
EncodeFilename(filePath) == ToBase64(BufferFromString(filePath))

\* the decoder with toString('latin1') for toString(): one character a byte
DecodeFilenameLatin1(token) == BufferFromBase64(token)

\* Buffer.from(token, 'base64').toString()
DecodeFilename(token) == BufferToString(BufferFromBase64(token))

(***************************************************************************)
(* encodeURIComponent, number formatting, JavaScript truthiness            *)
(***************************************************************************)
HexDigit(d) == IF d < 10 THEN 48 + d ELSE 55 + d

\* characters encodeURIComponent leaves alone: A-Z a-z 0-9 - _ . ! ~ * ' ( )
IsUnreserved(b) ==
    \/ b >= 65 /\ b <= 90
    \/ b >= 97 /\ b <= 122
    \/ b >= 48 /\ b <= 57
    \/ b \in {45, 95, 46, 33, 126, 42, 39, 40, 41}

RECURSIVE PercentEncode(_)
PercentEncode(b) ==
    IF b = <<>> THEN <<>>
    ELSE (IF IsUnreserved(Head(b)) THEN <<Head(b)>>
          ELSE <<37, HexDigit(Head(b) \div 16), HexDigit(Head(b) % 16)>>)
             \o PercentEncode(Tail(b))

EncodeURIComponent(s) == PercentEncode(BufferFromString(s))

\* `${n}` for a non-negative integer n
RECURSIVE Digits(_)
Digits(n) == IF n < 10 THEN <<48 + n>> ELSE Digits(n \div 10) \o <<48 + (n % 10)>>

Undefined == <<-2>>

\* a string is truthy iff it is not empty; null and undefined are falsy
Truthy(v) == v # Null /\ v # Undefined /\ v # <<>>

\* a || b
OrElse(a, b) == IF Truthy(a) THEN a ELSE b

(***************************************************************************)
(* uploadFileToBlob: the blob name and the metadata                        *)
(***************************************************************************)
\* /[^\x00-\x7F]/.test(filePath)
HasNonAsciiChars(filePath) == \E i \in 1..Len(filePath) : filePath[i] > 127

IsAscii(s) == \A i \in 1..Len(s) : s[i] >= 0 /\ s[i] <= 127

\* filePath.lastIndexOf('.'), one-based; 0 when there is no '.'
LastIndexOfDot(filePath) ==
    IF \E i \in 1..Len(filePath) : filePath[i] = Dot
    THEN CHOOSE i \in 1..Len(filePath) :
             /\ filePath[i] = Dot
             /\ \A j \in (i + 1)..Len(filePath) : filePath[j] # Dot
    ELSE 0

\* the extension as path.extname gives it: none for a name whose only '.' is
\* its first character
ExtensionLikeExtname(filePath) ==
    IF LastIndexOfDot(filePath) > 1
    THEN SubSeq(filePath, LastIndexOfDot(filePath), Len(filePath))
    ELSE <<>>

\* filePath.includes('.') ? filePath.substring(filePath.lastIndexOf('.')) : ''
Extension(filePath) ==
    IF LastIndexOfDot(filePath) > 0
    THEN SubSeq(filePath, LastIndexOfDot(filePath), Len(filePath))
    ELSE <<>>

FilePrefix == <<102, 105, 108, 101, 45>>   \* "file-"

\* the name without its timestamp
SynthNameWithoutTimestamp(timestamp, randomId, extension) ==
    FilePrefix \o randomId \o extension

\* `file-${timestamp}-${randomId}${extension}`
SynthName(timestamp, randomId, extension) ==
    FilePrefix \o Digits(timestamp) \o <<45>> \o randomId \o extension

\* the blob name synthesized for every filename, ASCII or not
SafeBlobNameAlwaysSynthesized(filePath, timestamp, randomId) ==
    SynthName(timestamp, randomId, Extension(filePath))

SafeBlobName(filePath, timestamp, randomId) ==
    IF HasNonAsciiChars(filePath)
    THEN SynthName(timestamp, randomId, Extension(filePath))
    ELSE filePath

\* the metadata object handed to blockBlobClient.upload; dateUploaded stands
\* for the ISO rendering of the instant `now`
UploadMetadata(filePath, now) ==
    [originalFilename |-> EncodeFilename(filePath),
     originalNameUtf8 |-> EncodeURIComponent(filePath),
     dateUploaded |-> Digits(now)]

\* blockBlobClient.url, relative to the container's URL
BlobUrl(name) == <<47>> \o EncodeURIComponent(name)

(***************************************************************************)
(* Blob Store                                                              *)
(***************************************************************************)
\* the name a metadata key is read back under by a store that lower-cases
LowerName(k) ==
    IF k = "originalFilename" THEN "originalfilename"
    ELSE IF k = "originalNameUtf8" THEN "originalnameutf8"
    ELSE IF k = "dateUploaded" THEN "dateuploaded"
    ELSE k

\* properties.metadata of blockBlobClient.getProperties()
ReadMetadata(stored) ==
    IF lowerCases
    THEN [k \in {LowerName(j) : j \in DOMAIN stored} |->
              stored[CHOOSE j \in DOMAIN stored : LowerName(j) = k]]
    ELSE stored

\* metadata.k of a JavaScript object
Prop(metadata, k) == IF k \in DOMAIN metadata THEN metadata[k] ELSE Undefined

HasBlob(store, name) == \E i \in 1..Len(store) : store[i].name = name

BlobAt(store, name) == store[CHOOSE i \in 1..Len(store) : store[i].name = name]

\* A stored object is [name, content, contentType, metadata] and two history
\* fields: writer, the request whose upload wrote it (0 once another client
\* has changed it), and declared, the filename it was uploaded as.

EmptyMetadata == [k \in {} |-> <<>>]

\* Put Blob that stores the object without its metadata
PutBlobWithoutMetadata(store, blob) ==
    LET bare == [blob EXCEPT !.metadata = EmptyMetadata] IN
    IF HasBlob(store, blob.name)
    THEN [i \in 1..Len(store) |->
              IF store[i].name = blob.name THEN bare ELSE store[i]]
    ELSE Append(store, bare)

\* Put Blob: replaces the object of that name, or adds one
PutBlob(store, blob) ==
    IF HasBlob(store, blob.name)
    THEN [i \in 1..Len(store) |->
              IF store[i].name = blob.name THEN blob ELSE store[i]]
    ELSE Append(store, blob)

\* create without the existence check: one more container at every call
CreateAlways(n) == n + 1

\* createIfNotExists
CreateIfNotExists(n) == IF n = 0 THEN 1 ELSE n

\* a filename value that no filename encodes to: "////", the bytes FF FF FF
CorruptMetadata == [originalfilename |-> <<47, 47, 47, 47>>]

\* metadata another client of the storage account may set on an object
ForeignMetadata == {EmptyMetadata, CorruptMetadata}

(***************************************************************************)
(* Requests                                                                *)
(***************************************************************************)
Requests == {1, 2}

\* declared filenames of the upload requests: "a.a", U+0E17 ".a" and
\* "a." U+0E17
FileNames == {<<97, 46, 97>>, <<3607, 46, 97>>, <<97, 46, 3607>>}

\* outcomes of Math.random().toString(36).substring(2, 15): "k", "7x"
RandomIds == {<<107>>, <<55, 120>>}

MimeType == "text/plain"

\* req.file.buffer of request r
FileBuffer(r) == <<r>>

NoFile == [originalname |-> Null, buffer |-> <<>>, mimetype |-> ""]

NoFileInfo ==
    [filename |-> Null, originalname |-> Null, decodedName |-> Null,
     blobName |-> Null, mimetype |-> "", size |-> 0, url |-> Null]

\* a request that is not being handled: not yet received, or answered
Inactive(pc) ==
    [pc |-> pc, file |-> NoFile, blobName |-> Null, token |-> Null, calls |-> <<>>]

\* no response is being sent
NoResponse ==
    [r |-> 0, status |-> 0, success |-> FALSE, message |-> "",
     file |-> NoFileInfo, request |-> NoFile, calls |-> <<>>]

\* the failure response to request r
Failure(r, status, message, calls) ==
    [r |-> r, status |-> status, success |-> FALSE, message |-> message,
     file |-> NoFileInfo, request |-> req[r].file, calls |-> calls]

NoListing == [status |-> 0, success |-> FALSE, message |-> "", files |-> <<>>,
              failedAt |-> 0]

SysInit ==
    /\ lowerCases \in BOOLEAN
    /\ containers = 0
    /\ blobs = <<>>
    /\ clock = 0
    /\ startup = "pending"
    /\ req = [r \in Requests |-> Inactive("idle")]
    /\ sent = NoResponse
    /\ listing = NoListing
    /\ displayed = <<>>

CodecOff ==
    /\ cFilePath = <<>>
    /\ cToken = Null
    /\ cDecoded = Null
    /\ cPhase = "off"
    /\ cBlobName = Null

\* UploadFile is not mounted
UiOff ==
    /\ fileSelected = FALSE
    /\ uploadError = ""
    /\ uploading = FALSE
    /\ uploadProgress = 0
    /\ attempts = 0
    /\ attempt = "none"
    /\ intervals = {}
    /\ resetTimeouts = 0

Init == SysInit /\ CodecOff /\ UiOff

\* a step that sends no response
Silent == sent' = NoResponse /\ listing' = NoListing /\ displayed' = <<>>

(***************************************************************************)
(* ensureContainerExists                                                   *)
(***************************************************************************)
EnsureOutcomes == {"ok", "listContainersFails", "createFails"}

\* a Blob Store call in a request's log, with whether it succeeded
Call(op, ok) == [op |-> op, ok |-> ok]

\* Blob Store calls of one ensureContainerExists(); a getAccountInfo failure
\* is caught and changes nothing that follows, so the log does not tell it
\* from a success; the other two failures are rethrown
EnsureCalls(outcome) ==
    IF outcome = "listContainersFails"
    THEN <<Call("getAccountInfo", TRUE), Call("listContainers", FALSE)>>
    ELSE <<Call("getAccountInfo", TRUE), Call("listContainers", TRUE),
           Call("createIfNotExists", outcome = "ok")>>

EnsureContainerExists(outcome) ==
    containers' = IF outcome = "ok" THEN CreateIfNotExists(containers) ELSE containers

\* index.ts: ensureContainerExists().catch(...) at server start
Startup(outcome) ==
    /\ startup = "pending"
    /\ EnsureContainerExists(outcome)
    /\ startup' = "done"
    /\ Silent
    /\ UNCHANGED <<lowerCases, blobs, clock, req>>
    /\ UNCHANGED codecVars
    /\ UNCHANGED uiVars

\* BlobServiceClient.fromConnectionString('') of @azure/storage-blob, whose
\* code is not part of the sources: it throws, or it returns a client
LoadOutcomes == {"throws", "returns"}

\* blobService.ts lines 7-16 when AZURE_STORAGE_CONNECTION_STRING is not set:
\* connectionString is '', the console.error, then fromConnectionString('')
\* outside any try; an exception there ends the process before app.listen
Load(outcome) ==
    /\ startup = "loading"
    /\ startup' = IF outcome = "throws" THEN "crashed" ELSE "pending"
    /\ Silent
    /\ UNCHANGED <<lowerCases, containers, blobs, clock, req>>
    /\ UNCHANGED codecVars
    /\ UNCHANGED uiVars

(***************************************************************************)
(* POST /api/upload                                                        *)
(***************************************************************************)
\* the handler without the missing-file check
ReceiveWithoutCheck(r, hasFile, name) ==
    /\ startup \in {"pending", "done"}
    /\ req[r].pc = "idle"
    /\ \A q \in Requests : q < r => req[q].pc # "idle"
    /\ req' = [req EXCEPT
                 ![r].pc = "ensure",
                 ![r].file = IF hasFile
                             THEN [originalname |-> name,
                                   buffer |-> FileBuffer(r),
                                   mimetype |-> MimeType]
                             ELSE NoFile]
    /\ sent' = NoResponse
    /\ listing' = NoListing
    /\ displayed' = <<>>
    /\ UNCHANGED <<lowerCases, containers, blobs, clock, startup>>
    /\ UNCHANGED codecVars
    /\ UNCHANGED uiVars

\* the handler up to its first await: the missing-file check
Receive(r, hasFile, name) ==
    /\ startup \in {"pending", "done"}
    /\ req[r].pc = "idle"
    /\ \A q \in Requests : q < r => req[q].pc # "idle"
    /\ IF ~hasFile
       THEN /\ req' = [req EXCEPT ![r] = Inactive("done")]
            /\ sent' = Failure(r, 400, "No file uploaded", <<>>)
       ELSE /\ req' = [req EXCEPT
                         ![r].pc = "ensure",
                         ![r].file = [originalname |-> name,
                                      buffer |-> FileBuffer(r),
                                      mimetype |-> MimeType]]
            /\ sent' = NoResponse
    /\ listing' = NoListing
    /\ displayed' = <<>>
    /\ UNCHANGED <<lowerCases, containers, blobs, clock, startup>>
    /\ UNCHANGED codecVars
    /\ UNCHANGED uiVars

\* the catch of ensureContainerExists() without its response and return
EnsureWithoutReturn(r, outcome) ==
    /\ req[r].pc = "ensure"
    /\ EnsureContainerExists(outcome)
    /\ req' = [req EXCEPT ![r].pc = "upload",
                          ![r].calls = @ \o EnsureCalls(outcome)]
    /\ sent' = NoResponse
    /\ listing' = NoListing
    /\ displayed' = <<>>
    /\ UNCHANGED <<lowerCases, blobs, clock, startup>>
    /\ UNCHANGED codecVars
    /\ UNCHANGED uiVars

\* await ensureContainerExists() and its catch
Ensure(r, outcome) ==
    /\ req[r].pc = "ensure"
    /\ EnsureContainerExists(outcome)
    /\ IF outcome = "ok"
       THEN /\ req' = [req EXCEPT ![r].pc = "upload",
                                  ![r].calls = @ \o EnsureCalls(outcome)]
            /\ sent' = NoResponse
       ELSE /\ req' = [req EXCEPT ![r] = Inactive("done")]
            /\ sent' = Failure(r, 500, "Error with Azure Blob Storage container",
                               req[r].calls \o EnsureCalls(outcome))
    /\ listing' = NoListing
    /\ displayed' = <<>>
    /\ UNCHANGED <<lowerCases, blobs, clock, startup>>
    /\ UNCHANGED codecVars
    /\ UNCHANGED uiVars

\* uploadFileToBlob up to the end of await blockBlobClient.upload(...);
\* elapsed is the time since new Date() was last read
Upload(r, elapsed, randomId, ok) ==
    /\ req[r].pc = "upload"
    /\ clock + elapsed <= MaxTime
    /\ clock' = clock + elapsed
    /\ LET filePath == req[r].file.originalname
           safeBlobName == SafeBlobName(filePath, clock', randomId)
           metadata == UploadMetadata(filePath, clock')
       IN IF ok
          THEN /\ blobs' = PutBlob(blobs, [name |-> safeBlobName,
                                           content |-> req[r].file.buffer,
                                           contentType |-> req[r].file.mimetype,
                                           metadata |-> metadata,
                                           writer |-> r,
                                           declared |-> filePath])
               /\ req' = [req EXCEPT ![r].pc = "props",
                                     ![r].blobName = safeBlobName,
                                     ![r].token = metadata.originalFilename,
                                     ![r].calls = Append(@, Call("upload", TRUE))]
               /\ sent' = NoResponse
          ELSE /\ blobs' = blobs
               /\ req' = [req EXCEPT ![r] = Inactive("done")]
               /\ sent' = Failure(r, 500, "Error uploading file to Azure Blob Storage",
                                  Append(req[r].calls, Call("upload", FALSE)))
    /\ listing' = NoListing
    /\ displayed' = <<>>
    /\ UNCHANGED <<lowerCases, containers, startup>>
    /\ UNCHANGED codecVars
    /\ UNCHANGED uiVars

\* the result with the metadata token left undecoded
BlobResultUndecoded(filePath, originalFilenameEncoded, safeBlobName) ==
    [url |-> BlobUrl(safeBlobName),
     originalName |-> filePath,
     decodedName |-> originalFilenameEncoded,
     blobName |-> safeBlobName]

\* the value uploadFileToBlob returns
BlobResult(filePath, originalFilenameEncoded, safeBlobName) ==
    [url |-> BlobUrl(safeBlobName),
     originalName |-> filePath,
     decodedName |-> DecodeFilename(originalFilenameEncoded),
     blobName |-> safeBlobName]

\* the 200 response of the upload endpoint
UploadSuccess(r, file, blobResult, calls) ==
    [r |-> r, status |-> 200, success |-> TRUE,
     message |-> "File uploaded successfully to Azure Blob Storage",
     file |-> [filename |-> blobResult.originalName,
               originalname |-> file.originalname,
               decodedName |-> OrElse(blobResult.decodedName, file.originalname),
               blobName |-> blobResult.blobName,
               mimetype |-> file.mimetype,
               size |-> Len(file.buffer),
               url |-> blobResult.url],
     request |-> file, calls |-> calls]

\* the return and the response without the getProperties() before them
PropsWithoutReadBack(r, ok) ==
    /\ req[r].pc = "props"
    /\ ok => HasBlob(blobs, req[r].blobName)
    /\ req' = [req EXCEPT ![r] = Inactive("done")]
    /\ sent' =
         IF ok
         THEN UploadSuccess(r, req[r].file,
                  BlobResult(req[r].file.originalname, req[r].token, req[r].blobName),
                  req[r].calls)
         ELSE Failure(r, 500, "Error uploading file to Azure Blob Storage",
                      req[r].calls)
    /\ listing' = NoListing
    /\ displayed' = <<>>
    /\ UNCHANGED <<lowerCases, containers, blobs, clock, startup>>
    /\ UNCHANGED codecVars
    /\ UNCHANGED uiVars

\* await blockBlobClient.getProperties(), the return, and the response
Props(r, ok) ==
    /\ req[r].pc = "props"
    /\ ok => HasBlob(blobs, req[r].blobName)
    /\ req' = [req EXCEPT ![r] = Inactive("done")]
    /\ sent' =
         IF ok
         THEN UploadSuccess(r, req[r].file,
                  BlobResult(req[r].file.originalname, req[r].token, req[r].blobName),
                  Append(req[r].calls, Call("getProperties", TRUE)))
         ELSE Failure(r, 500, "Error uploading file to Azure Blob Storage",
                      Append(req[r].calls, Call("getProperties", FALSE)))
    /\ listing' = NoListing
    /\ displayed' = <<>>
    /\ UNCHANGED <<lowerCases, containers, blobs, clock, startup>>
    /\ UNCHANGED codecVars
    /\ UNCHANGED uiVars

(***************************************************************************)
(* getOriginalFileName                                                     *)
(***************************************************************************)
\* getProperties() of a missing object throws, which the catch turns into null
GetOriginalFileName(store, blobName) ==
    IF ~HasBlob(store, blobName) THEN Null
    ELSE LET metadata == ReadMetadata(BlobAt(store, blobName).metadata)
             value == Prop(metadata, "originalFilename")
         IN IF Truthy(value) THEN DecodeFilename(value) ELSE Null

(***************************************************************************)
(* GET /api/files                                                          *)
(***************************************************************************)
\* one iteration of the loop of listBlobs; Buffer.from(..., 'base64') and
\* toString() never throw, so the catch block is never entered
ListEntry(blob) ==
    LET metadata == ReadMetadata(blob.metadata)
        value == Prop(metadata, "originalfilename")
    IN [name |-> blob.name,
        url |-> BlobUrl(blob.name),
        originalName |-> IF Truthy(value) THEN value ELSE Null,
        decodedName |-> IF Truthy(value) THEN DecodeFilename(value) ELSE Null]

\* listBlobs with blobs.push inside the if: objects without a filename value
\* are left out
ListBlobsNamedOnly(store) ==
    LET RECURSIVE Named(_)
        Named(rest) ==
            IF rest = <<>> THEN <<>>
            ELSE (IF ListEntry(Head(rest)).decodedName # Null
                  THEN <<ListEntry(Head(rest))>> ELSE <<>>) \o Named(Tail(rest))
    IN Named(store)

ListBlobs(store) == [i \in 1..Len(store) |-> ListEntry(store[i])]

\* the handler, called by fetchFiles of FileList; failedAt = k > 0 means
\* getBlobMetadata throws for the k-th object, which listBlobs does not catch
ListFiles(failedAt) ==
    /\ failedAt \in 0..Len(blobs)
    /\ listing' =
         IF failedAt = 0
         THEN [status |-> 200, success |-> TRUE,
               message |-> "Files retrieved successfully",
               files |-> ListBlobs(blobs), failedAt |-> 0]
         ELSE [status |-> 500, success |-> FALSE,
               message |-> "Error listing files",
               files |-> <<>>, failedAt |-> failedAt]
    /\ sent' = NoResponse
    /\ UNCHANGED <<lowerCases, containers, blobs, clock, startup, req>>
    /\ UNCHANGED codecVars
    /\ UNCHANGED uiVars

(***************************************************************************)
(* FileList (file_list.tsx)                                                *)
(***************************************************************************)
\* {file.originalName || file.decodedName || file.name}
DisplayName(file) == OrElse(OrElse(file.originalName, file.decodedName), file.name)

\* files.map(...): the name rendered for each file
Render(files) == [i \in 1..Len(files) |-> DisplayName(files[i])]

\* fetchFiles: GET /api/files, setFiles(data.files) and the rendering of the
\* new files; a response that is not ok sets error and renders nothing new
FetchFiles(failedAt) ==
    /\ ListFiles(failedAt)
    /\ displayed' = IF listing'.status = 200 /\ listing'.success
                    THEN Render(listing'.files)
                    ELSE <<>>

\* another client of the storage account replaces an object's metadata
SetBlobMetadata(i, metadata) ==
    /\ i \in 1..Len(blobs)
    /\ Cardinality({j \in 1..Len(blobs) : blobs[j].writer = 0 /\ j # i}) < MaxForeign
    /\ blobs[i].metadata # metadata
    /\ blobs' = [blobs EXCEPT ![i].metadata = metadata, ![i].writer = 0]
    /\ Silent
    /\ UNCHANGED <<lowerCases, containers, clock, startup, req>>
    /\ UNCHANGED codecVars
    /\ UNCHANGED uiVars

Next ==
    \/ \E outcome \in EnsureOutcomes : Startup(outcome)
    \/ \E r \in Requests, hasFile \in BOOLEAN, name \in FileNames :
           Receive(r, hasFile, name)
    \/ \E r \in Requests, outcome \in EnsureOutcomes : Ensure(r, outcome)
    \/ \E r \in Requests, elapsed \in 0..MaxTime, randomId \in RandomIds,
          ok \in BOOLEAN : Upload(r, elapsed, randomId, ok)
    \/ \E r \in Requests, ok \in BOOLEAN : Props(r, ok)
    \/ \E failedAt \in 0..Cardinality(Requests) : FetchFiles(failedAt)
    \/ \E i \in 1..Cardinality(Requests), metadata \in ForeignMetadata :
           SetBlobMetadata(i, metadata)

Spec == Init /\ [][Next]_vars

(***************************************************************************)
(* The process started without AZURE_STORAGE_CONNECTION_STRING.            *)
(***************************************************************************)
\* the container may have been created by Terraform
UnconfiguredInit ==
    /\ lowerCases \in BOOLEAN
    /\ containers \in {0, 1}
    /\ blobs = <<>>
    /\ clock = 0
    /\ startup = "loading"
    /\ req = [r \in Requests |-> Inactive("idle")]
    /\ sent = NoResponse
    /\ listing = NoListing
    /\ displayed = <<>>
    /\ CodecOff
    /\ UiOff

\* a client made from no connection string reaches no storage account:
\* getAccountInfo fails (caught), then listContainers fails
UnconfiguredOutcomes == {"listContainersFails"}

UnconfiguredNext ==
    \/ \E outcome \in LoadOutcomes : Load(outcome)
    \/ \E outcome \in UnconfiguredOutcomes : Startup(outcome)
    \/ \E r \in Requests, hasFile \in BOOLEAN, name \in FileNames :
           Receive(r, hasFile, name)
    \/ \E r \in Requests, outcome \in UnconfiguredOutcomes : Ensure(r, outcome)

SpecUnconfigured == UnconfiguredInit /\ [][UnconfiguredNext]_vars

(***************************************************************************)
(* Codec harness: one declared filename is encoded as uploadFileToBlob     *)
(* encodes it, then decoded as the read paths decode it.                   *)
(***************************************************************************)
SysOff ==
    /\ lowerCases = FALSE
    /\ containers = 0
    /\ blobs = <<>>
    /\ clock = 0
    /\ startup = "pending"
    /\ req = [r \in Requests |-> Inactive("idle")]
    /\ sent = NoResponse
    /\ listing = NoListing
    /\ displayed = <<>>

CodecInit ==
    /\ cFilePath \in UnicodeStrings(MaxLen)
    /\ cToken = Null
    /\ cDecoded = Null
    /\ cPhase = "input"
    /\ cBlobName = Null
    /\ SysOff
    /\ UiOff

CodecEncode ==
    /\ cPhase = "input"
    /\ cToken' = EncodeFilename(cFilePath)
    /\ cPhase' = "encoded"
    /\ UNCHANGED <<cFilePath, cDecoded, cBlobName>>
    /\ UNCHANGED sysVars
    /\ UNCHANGED uiVars

CodecDecode ==
    /\ cPhase = "encoded"
    /\ cDecoded' = DecodeFilename(cToken)
    /\ cPhase' = "decoded"
    /\ UNCHANGED <<cFilePath, cToken, cBlobName>>
    /\ UNCHANGED sysVars
    /\ UNCHANGED uiVars

\* lines 58-67: the blob name of the filename under test
CodecDeriveKey(timestamp, randomId) ==
    /\ cPhase = "input"
    /\ cBlobName = Null
    /\ cBlobName' = SafeBlobName(cFilePath, timestamp, randomId)
    /\ UNCHANGED <<cFilePath, cToken, cDecoded, cPhase>>
    /\ UNCHANGED sysVars
    /\ UNCHANGED uiVars

CodecNext ==
    \/ CodecEncode
    \/ CodecDecode
    \/ \E timestamp \in 0..MaxTime, randomId \in RandomIds :
           CodecDeriveKey(timestamp, randomId)

SpecCodec == CodecInit /\ [][CodecNext]_vars

(***************************************************************************)
(* UploadFile (file_management.tsx): handleUpload, its progress timer and  *)
(* its reset timeout, with the answers fetch can give.                     *)
(***************************************************************************)
\* useState initial values; no timer is set
UploadFileInit ==
    /\ fileSelected = FALSE
    /\ uploadError = ""
    /\ uploading = FALSE
    /\ uploadProgress = 0
    /\ attempts = 0
    /\ attempt = "none"
    /\ intervals = {}
    /\ resetTimeouts = 0
    /\ SysOff
    /\ CodecOff

\* validateAndSetFile with a file of an allowed type and size; the drop area
\* and the file input are rendered only while file is null
SelectFile ==
    /\ ~fileSelected
    /\ fileSelected' = TRUE
    /\ uploadError' = ""
    /\ UNCHANGED <<uploading, uploadProgress, attempts, attempt, intervals,
                   resetTimeouts>>
    /\ UNCHANGED <<sysVars, codecVars>>

\* the Upload and Cancel buttons are rendered iff file is set, uploadProgress
\* is not 100 and uploading is false
ButtonsShown == fileSelected /\ uploadProgress # 100 /\ ~uploading

\* handleUpload up to await fetch(...)
HandleUpload ==
    /\ ButtonsShown
    /\ attempts < MaxAttempts
    /\ IF ~fileSelected
       THEN /\ uploadError' = "Please select a file first"
            /\ UNCHANGED <<uploading, uploadProgress, attempts, attempt, intervals>>
       ELSE /\ uploading' = TRUE
            /\ uploadProgress' = 0
            /\ attempts' = attempts + 1
            /\ intervals' = intervals \cup {attempts + 1}
            /\ attempt' = "fetching"
            /\ UNCHANGED uploadError
    /\ UNCHANGED <<fileSelected, resetTimeouts>>
    /\ UNCHANGED <<sysVars, codecVars>>

\* the callback of setInterval of attempt id: the updater of setUploadProgress
Tick(id) ==
    /\ id \in intervals
    /\ IF uploadProgress >= 90
       THEN /\ intervals' = intervals \ {id}
            /\ uploadProgress' = 90
       ELSE /\ intervals' = intervals
            /\ uploadProgress' = uploadProgress + 5
    /\ UNCHANGED <<fileSelected, uploadError, uploading, attempts, attempt,
                   resetTimeouts>>
    /\ UNCHANGED <<sysVars, codecVars>>

\* the catch block
Catch(message) ==
    /\ uploadError' = message
    /\ uploading' = FALSE
    /\ uploadProgress' = 0
    /\ attempt' = "failed"

\* fetch resolves: clearInterval(intervalId), then the response; a response
\* that is not ok throws into the catch block
FetchResolves(ok) ==
    /\ attempt = "fetching"
    /\ intervals' = intervals \ {attempts}
    /\ IF ok
       THEN /\ uploadProgress' = 100
            /\ uploading' = FALSE
            /\ resetTimeouts' = resetTimeouts + 1
            /\ attempt' = "succeeded"
            /\ UNCHANGED uploadError
       ELSE /\ Catch("Error uploading file")
            /\ UNCHANGED resetTimeouts
    /\ UNCHANGED <<fileSelected, attempts>>
    /\ UNCHANGED <<sysVars, codecVars>>

\* fetch rejects (the server cannot be reached): control goes from line 148
\* to the catch block, past clearInterval(intervalId)
FetchRejects ==
    /\ attempt = "fetching"
    /\ Catch("Failed to fetch")
    /\ UNCHANGED <<fileSelected, attempts, intervals, resetTimeouts>>
    /\ UNCHANGED <<sysVars, codecVars>>

\* the callback of setTimeout(..., 2000) after a success
ResetTimeout ==
    /\ resetTimeouts > 0
    /\ resetTimeouts' = resetTimeouts - 1
    /\ fileSelected' = FALSE
    /\ uploadProgress' = 0
    /\ UNCHANGED <<uploadError, uploading, attempts, attempt, intervals>>
    /\ UNCHANGED <<sysVars, codecVars>>

\* resetUpload, the Cancel button
ResetUpload ==
    /\ ButtonsShown
    /\ fileSelected' = FALSE
    /\ uploadError' = ""
    /\ uploadProgress' = 0
    /\ UNCHANGED <<uploading, attempts, attempt, intervals, resetTimeouts>>
    /\ UNCHANGED <<sysVars, codecVars>>

UploadFileNext ==
    \/ SelectFile
    \/ HandleUpload
    \/ \E id \in 1..MaxAttempts : Tick(id)
    \/ \E ok \in BOOLEAN : FetchResolves(ok)
    \/ FetchRejects
    \/ ResetTimeout
    \/ ResetUpload

SpecUploadFile == UploadFileInit /\ [][UploadFileNext]_vars

(***************************************************************************)
(* Properties                                                              *)
(***************************************************************************)
\* C1: decoding the base64 token that uploadFileToBlob writes for a Unicode
\* filename, with the decoder of the read paths, gives back that filename.
C1_RoundTrip == cPhase = "decoded" => cDecoded = cFilePath

\* a filename of a three-byte and a four-byte character has been encoded and
\* decoded back
C1_Witness ==
    /\ cPhase = "decoded"
    /\ cFilePath = <<3607, 55357, 56832>>
    /\ cToken = <<52, 76, 105, 88, 56, 74, 43, 89, 103, 65, 61, 61>>
    /\ cDecoded = cFilePath

\* C2: a successful upload response reports the declared filename verbatim
\* as originalname and as the recovered filename decodedName.
C2_ResponseNames ==
    sent.status = 200 =>
        /\ sent.file.originalname = sent.request.originalname
        /\ sent.file.decodedName = sent.request.originalname

\* a success response for a filename with a Thai character
C2_Witness ==
    /\ sent.status = 200
    /\ sent.request.originalname = <<3607, 46, 97>>
    /\ sent.file.decodedName = <<3607, 46, 97>>

C4_SynthesizedNameAscii ==
    \A r \in Requests :
        (req[r].pc = "props" /\ HasNonAsciiChars(req[r].file.originalname)) =>
            /\ \E timestamp \in 0..MaxTime, randomId \in RandomIds :
                   req[r].blobName =
                       SynthName(timestamp, randomId, Extension(req[r].file.originalname))
            /\ IsAscii(req[r].blobName)

\* a request has made a failing call of ensureContainerExists
EnsureFailed(calls) ==
    \E i \in 1..Len(calls) :
        ~calls[i].ok /\ calls[i].op \in {"listContainers", "createIfNotExists"}

\* C5: an upload request without a file is answered 400 'No file uploaded',
\* and has made no Blob Store call when it is answered.
C5_NoFileNoCalls ==
    (sent.r # 0 /\ sent.request = NoFile) =>
        /\ sent.status = 400
        /\ sent.message = "No file uploaded"
        /\ ~sent.success
        /\ sent.calls = <<>>

\* the first request came without a file and has been answered, the store
\* untouched
C5_Witness ==
    /\ sent.r = 1
    /\ sent.request = NoFile
    /\ sent.status = 400
    /\ sent.calls = <<>>
    /\ blobs = <<>>
    /\ containers = 0

\* C6: when ensuring the container fails in an upload request, the request
\* is answered 500 'Error with Azure Blob Storage container', it issues no
\* object write and gets no success.
C6_ContainerFailureAborts ==
    /\ \A r \in Requests : ~EnsureFailed(req[r].calls)
    /\ (sent.r # 0 /\ EnsureFailed(sent.calls)) =>
           /\ sent.status = 500
           /\ sent.message = "Error with Azure Blob Storage container"
           /\ ~sent.success
           /\ \A i \in 1..Len(sent.calls) : sent.calls[i].op # "upload"
           /\ \A j \in 1..Len(blobs) : blobs[j].writer # sent.r

\* createIfNotExists has failed for a request with a file, which is answered
C6_Witness ==
    /\ sent.r # 0
    /\ sent.request.originalname \in FileNames
    /\ sent.calls = <<Call("getAccountInfo", TRUE), Call("listContainers", TRUE),
                      Call("createIfNotExists", FALSE)>>
    /\ sent.status = 500

\* the object the store holds under the name of a success response is the
\* one the answered request sent
HoldsUpload(blob, response) ==
    /\ blob.content = response.request.buffer
    /\ blob.contentType = response.request.mimetype
    /\ Prop(blob.metadata, "originalFilename")
           = EncodeFilename(response.request.originalname)
    /\ Truthy(Prop(blob.metadata, "dateUploaded"))

\* the request's write was made and succeeded
WriteSucceeded(calls) ==
    \E i \in 1..Len(calls) : calls[i] = Call("upload", TRUE)

\* C7 as stated: at every success response the store holds, under the
\* returned name, an object with the request's payload, content type and a
\* metadata map with the encoded filename and an upload timestamp (objects
\* that a client other than this program has changed are left aside).
C7_StoreHoldsUpload ==
    sent.status = 200 =>
        /\ WriteSucceeded(sent.calls)
        /\ HasBlob(blobs, sent.file.blobName)
        /\ BlobAt(blobs, sent.file.blobName).writer # 0 =>
               HoldsUpload(BlobAt(blobs, sent.file.blobName), sent)

\* C7 amended: at every success response the request's write has succeeded
\* and the store holds an object under the returned name; it is the
\* request's payload, content type and metadata unless another upload or
\* another client has written that object since.
C7_StoreHoldsOwnUpload ==
    sent.status = 200 =>
        /\ WriteSucceeded(sent.calls)
        /\ HasBlob(blobs, sent.file.blobName)
        /\ BlobAt(blobs, sent.file.blobName).writer = sent.r =>
               HoldsUpload(BlobAt(blobs, sent.file.blobName), sent)

\* a success response whose object is still the one the request wrote
C7_Witness ==
    /\ sent.status = 200
    /\ HasBlob(blobs, sent.file.blobName)
    /\ BlobAt(blobs, sent.file.blobName).writer = sent.r
    /\ HoldsUpload(BlobAt(blobs, sent.file.blobName), sent)

\* C8: a listing of a container in which exactly one object has a corrupted
\* filename value has an entry for every object, null as the recovered
\* filename of the corrupted one, and the declared filename as the recovered
\* filename of every uploaded one.
C8_CorruptedEntryNull ==
    (/\ listing.status = 200
     /\ Cardinality({i \in 1..Len(blobs) : blobs[i].metadata = CorruptMetadata}) = 1) =>
        /\ Len(listing.files) = Len(blobs)
        /\ \A i \in 1..Len(blobs) :
               /\ blobs[i].metadata = CorruptMetadata =>
                      listing.files[i].decodedName = Null
               /\ blobs[i].writer # 0 =>
                      listing.files[i].decodedName = blobs[i].declared

\* the stored metadata has no filename key, in either spelling
NoFilenameKey(metadata) ==
    \A k \in DOMAIN metadata : LowerName(k) # "originalfilename"

\* C9: a listing has one entry for each object of the container, in the
\* store's order and under the object's name; the entry of an object
\* without a filename key in its metadata has null as recovered filename.
C9_OneEntryPerObject ==
    listing.status = 200 =>
        /\ Len(listing.files) = Len(blobs)
        /\ \A i \in 1..Len(blobs) :
               /\ listing.files[i].name = blobs[i].name
               /\ NoFilenameKey(blobs[i].metadata) =>
                      listing.files[i].decodedName = Null
        /\ \A i, j \in 1..Len(listing.files) :
               i # j => listing.files[i].name # listing.files[j].name

\* a listing of two objects, the first without any metadata
C9_Witness ==
    /\ listing.status = 200
    /\ Len(blobs) = 2
    /\ blobs[1].metadata = EmptyMetadata
    /\ Len(listing.files) = 2
    /\ listing.files[1].decodedName = Null
    /\ listing.files[2].name = blobs[2].name

\* C10: when the metadata read fails for one object, the listing endpoint
\* still answers with success and with entries for the other objects.
C10_ListingSurvivesReadFailure ==
    listing.failedAt > 0 =>
        /\ listing.status = 200
        /\ Len(listing.files) >= Len(blobs) - 1

\* C11: the listing that follows a success response for declared filename F
\* and blob name K, the object under K still being that request's, has an
\* entry named K whose decodedName is F, whether or not the store lower-cases
\* metadata names.
C11_ListingRecoversName ==
    [][(/\ sent.status = 200
        /\ listing'.status = 200
        /\ HasBlob(blobs, sent.file.blobName)
        /\ BlobAt(blobs, sent.file.blobName).writer = sent.r) =>
           \E i \in 1..Len(listing'.files) :
               /\ listing'.files[i].name = sent.file.blobName
               /\ listing'.files[i].decodedName = sent.request.originalname]_vars

\* the call c occurs in the log before position i
CalledBefore(calls, i, c) == \E j \in 1..(i - 1) : calls[j] = c

\* the write is issued once, after a successful createIfNotExists and after
\* every call of ensureContainerExists; the read-back after a successful write
OrderedCalls(calls) ==
    \A i \in 1..Len(calls) :
        /\ calls[i].op = "upload" =>
               /\ CalledBefore(calls, i, Call("createIfNotExists", TRUE))
               /\ \A j \in 1..Len(calls) : j # i => calls[j].op # "upload"
        /\ calls[i].op = "getProperties" =>
               CalledBefore(calls, i, Call("upload", TRUE))
        /\ calls[i].op \in {"getAccountInfo", "listContainers", "createIfNotExists"} =>
               \A j \in 1..(i - 1) : calls[j].op \notin {"upload", "getProperties"}

\* C12: in an upload request with a file the object write is issued once,
\* after the container ensure has succeeded, and puts payload, content type
\* and metadata in one call; the read-back is issued after the write has
\* succeeded, and the success response is sent after the read-back.
C12_EffectOrder ==
    /\ \A r \in Requests :
           /\ OrderedCalls(req[r].calls)
           /\ req[r].pc = "props" =>
                  /\ req[r].calls[Len(req[r].calls)] = Call("upload", TRUE)
                  /\ HasBlob(blobs, req[r].blobName)
                  /\ BlobAt(blobs, req[r].blobName).writer = r =>
                         LET blob == BlobAt(blobs, req[r].blobName) IN
                         /\ blob.content = req[r].file.buffer
                         /\ blob.contentType = req[r].file.mimetype
                         /\ Prop(blob.metadata, "originalFilename") = req[r].token
                         /\ Truthy(Prop(blob.metadata, "dateUploaded"))
    /\ sent.r # 0 => OrderedCalls(sent.calls)
    /\ sent.status = 200 =>
           /\ Len(sent.calls) > 0
           /\ sent.calls[Len(sent.calls)] = Call("getProperties", TRUE)

\* a success response after the five calls, in their order
C12_Witness ==
    /\ sent.status = 200
    /\ sent.calls = <<Call("getAccountInfo", TRUE), Call("listContainers", TRUE),
                      Call("createIfNotExists", TRUE), Call("upload", TRUE),
                      Call("getProperties", TRUE)>>

\* C13: the calls of ensureContainerExists, of server start and of the
\* uploads in any interleaving, never make a second container and never
\* remove one; once a call has succeeded there is exactly one container; a
\* call succeeds on an existing container; and no call changes the objects.
C13_EnsureIdempotent ==
    [][/\ containers' \in {0, 1}
       /\ containers' >= containers
       /\ \A r \in Requests :
              /\ req'[r].pc \in {"upload", "props"} => containers' = 1
              /\ (req[r].pc = "ensure" /\ req'[r].pc # "ensure") => blobs' = blobs
       /\ startup' # startup => blobs' = blobs]_vars

\* the second request's ensureContainerExists has succeeded on the container
\* that exists, after the first request's upload: the container is one and
\* the first request's object is in it
C13_Witness ==
    /\ startup = "done"
    /\ containers = 1
    /\ req[1].pc = "done"
    /\ req[2].pc = "upload"
    /\ Len(blobs) = 1
    /\ blobs[1].writer = 1

\* the messages of the failure responses to a storage call that failed
StorageFailureMessages ==
    {"Error with Azure Blob Storage container",
     "Error uploading file to Azure Blob Storage",
     "Internal server error during file upload"}

\* C14: without the connection string the process does not crash when it
\* starts, and a request with a file gets a failure response, which is not
\* one of the responses to a failed storage call but names the missing
\* configuration.
C14_UnconfiguredUploadsFail ==
    /\ startup # "crashed"
    /\ (sent.r # 0 /\ sent.request # NoFile) =>
           /\ ~sent.success
           /\ sent.status # 200
           /\ sent.message \notin StorageFailureMessages

StoredFilenameValue(metadata) ==
    IF \E k \in DOMAIN metadata : LowerName(k) = "originalfilename"
    THEN metadata[CHOOSE k \in DOMAIN metadata : LowerName(k) = "originalfilename"]
    ELSE Undefined

\* C16: the decodedName of a success response is the decode of the filename
\* value that the read-back of the object's metadata returned, also when
\* that value is not the one the request sent.
C16_DecodesReadBack ==
    (sent.status = 200 /\ HasBlob(blobs, sent.file.blobName)) =>
        LET value == StoredFilenameValue(BlobAt(blobs, sent.file.blobName).metadata)
        IN Truthy(value) => sent.file.decodedName = DecodeFilename(value)

\* C17: for every file of a listing FileList shows the decodedName when the
\* entry has one, else the originalName when it has one, else the blob name.
C17_DisplaysDecodedName ==
    listing.status = 200 =>
        /\ Len(displayed) = Len(listing.files)
        /\ \A i \in 1..Len(listing.files) :
               LET file == listing.files[i] IN
               displayed[i] = IF Truthy(file.decodedName) THEN file.decodedName
                              ELSE IF Truthy(file.originalName) THEN file.originalName
                              ELSE file.name

\* C18: for every object an upload wrote, getOriginalFileName of its name and
\* the decodedName of its listing entry are the same value, the declared
\* filename, whether or not the store lower-cases metadata names.
C18_OneCanonicalKey ==
    listing.status = 200 =>
        \A i \in 1..Len(blobs) :
            blobs[i].writer # 0 =>
                /\ GetOriginalFileName(blobs, blobs[i].name)
                       = listing.files[i].decodedName
                /\ listing.files[i].decodedName = blobs[i].declared

\* the part of the filename from its last '.', stated without lastIndexOf
LastDotSuffixes(filePath) ==
    {e \in {SubSeq(filePath, k, Len(filePath)) : k \in 1..Len(filePath)} :
        /\ e[1] = Dot
        /\ \A j \in 2..Len(e) : e[j] # Dot}

C20_FailureLeavesStore ==
    (sent.r # 0 /\ ~sent.success) =>
        \A i \in 1..Len(blobs) : blobs[i].writer # sent.r

\* C21: from the end of a failed upload attempt until the user starts the
\* next upload, uploading is false and uploadProgress is 0; no timer of the
\* failed attempt changes them.
C21_FailedAttemptStaysReset ==
    attempt = "failed" => (~uploading /\ uploadProgress = 0)

====
